---- MODULE Spec2Model ----
(***************************************************************************)
(* Model of universal-devs/go-utilities. The config package: the AppConfig  *)
(* store (NewConfig, Setup, loadEnv, Validate, Lookup, Get, the derived     *)
(* accessors, DumpTable, CreateSampleFile), the process environment it      *)
(* reads and that godotenv.Overload writes, and the envfiles it loads. The  *)
(* logger package: Logger objects, their default-field maps, the entries    *)
(* they hand to logrus and the gorm adapter settings.                       *)
(***************************************************************************)
EXTENDS Integers, Sequences, FiniteSets, TLC

VARIABLES
    vars,   \* AppConfig.vars: map[string]*Variable
    env,    \* the process environment: name -> value, for the names that are set
    call,   \* the last operation run, its arguments and what it returned
    fs,     \* the files CreateSampleFile has written: name -> text
    loggers, \* the Logger objects built so far
    heap,   \* the logrus.Fields maps the loggers and their callers hold, by reference
    parentOf \* for each Logger the Logger it was derived from, 0 for one built by a constructor

logVars == <<loggers, heap, parentOf>>

allVars == <<vars, env, call, fs, loggers, heap, parentOf>>

----------------------------------------------------------------------------
(* constants package *)

APP_DEBUG == "APP_DEBUG"
APP_LOG_LEVEL == "APP_LOG_LEVEL"
APP_LOG_DEV == "APP_LOG_DEV"
APP_ENV == "APP_ENV"
APP_PORT == "APP_PORT"
APP_DB_SECRET_NAME == "APP_DB_SECRET_NAME"
EC2_ID == "EC2_ID"

ENV_TEST == "test"
ENV_DEV == "dev"
ENV_STAGING == "stage"
ENV_ACCEPTANCE == "acceptance"
ENV_PRODUCTION == "production"

ValidEnvironments == {ENV_DEV, ENV_TEST, ENV_STAGING, ENV_ACCEPTANCE, ENV_PRODUCTION}

TruthyValues == {"1", "t", "T", "TRUE", "true", "True", "0", "f", "F", "FALSE"}

LOG_LEVEL_ERROR == "error"
LOG_LEVEL_WARN == "warn"
LOG_LEVEL_INFO == "info"
LOG_LEVEL_DEBUG == "debug"

ValidLogLevels == {LOG_LEVEL_DEBUG, LOG_LEVEL_INFO, LOG_LEVEL_WARN, LOG_LEVEL_ERROR}

----------------------------------------------------------------------------
(* Go maps as functions *)

EmptyMap == [k \in {} |-> ""]

Put(m, k, v) == [x \in (DOMAIN m) \cup {k} |-> IF x = k THEN v ELSE m[x]]

Delete(m, k) == [x \in (DOMAIN m) \ {k} |-> m[x]]

\* every order a range loop may visit the keys S in
RECURSIVE Orders(_)
Orders(S) ==
    IF S = {} THEN {<<>>}
    ELSE UNION {{<<x>> \o o : o \in Orders(S \ {x})} : x \in S}

----------------------------------------------------------------------------
(* errors *)

NilError == [isNil |-> TRUE, msg |-> ""]

NewError(msg) == [isNil |-> FALSE, msg |-> msg]

\* os.PathError{Op, Path, Err} as os.Open returns it; a parse error has no Op and no Path
NoCause == [Op |-> "", Path |-> "", Err |-> ""]

\* the value Setup returns: nil, a chain of errors.Wrap messages around a
\* cause, or a validation.Errors map
NoError == [kind |-> "nil", wraps |-> <<>>, cause |-> NoCause, errs |-> EmptyMap]

Wrap(err, message) == [err EXCEPT !.kind = "wrapped", !.wraps = <<message>> \o @]

Cause(c) == [kind |-> "cause", wraps |-> <<>>, cause |-> c, errs |-> EmptyMap]

----------------------------------------------------------------------------
(* validation rules (ozzo-validation) *)

\* the rules the schemas use, each named by the expression that builds it
Required == "validation.Required"
InValidEnvironments == "validation.In(constants.ValidEnvironments...)"
InTruthyValues == "validation.In(constants.TruthyValues...)"
InValidLogLevels == "validation.In(constants.ValidLogLevels...)"

\* the elements of an In rule
Elements(rule) ==
    IF rule = InValidEnvironments THEN ValidEnvironments
    ELSE IF rule = InValidLogLevels THEN ValidLogLevels
    ELSE TruthyValues

\* rule.Validate(value): Required rejects the empty string; In skips the empty
\* string and rejects every value that is not one of its elements
RuleValidate(rule, value) ==
    IF rule = Required
    THEN IF value = "" THEN NewError("cannot be blank") ELSE NilError
    ELSE IF value = "" \/ value \in Elements(rule)
         THEN NilError
         ELSE NewError("must be a valid value")

----------------------------------------------------------------------------
(* the schemas a caller hands to NewConfig *)

Variable(value, default, description, rules) ==
    [Value |-> value, DefaultValue |-> default, Description |-> description, Rules |-> rules]

\* a registered name that is no legal environment-variable name
ODD_NAME == "APP_ENV = dev"

SchemaNames == {APP_ENV, ODD_NAME}

VariableChoices(name) ==
    IF name = APP_ENV
    THEN {Variable(v, d, "The environment of the application",
                   [r \in {"Required", "Valid environment"} |->
                        IF r = "Required" THEN Required ELSE InValidEnvironments]) :
             v \in {"", ENV_PRODUCTION}, d \in {ENV_TEST, ""}}
    ELSE {Variable("", "x", "", [r \in {"Truthy value"} |-> InTruthyValues])}

Schemas ==
    UNION {{s \in [names -> UNION {VariableChoices(n) : n \in names}] :
                \A n \in names : s[n] \in VariableChoices(n)} :
           names \in SUBSET SchemaNames}

\* the argument of NewConfig: a nil map, or a map of Variables
NilMap == [isNil |-> TRUE, m |-> EmptyMap]

SchemaInputs == {NilMap} \cup {[isNil |-> FALSE, m |-> s] : s \in Schemas}

----------------------------------------------------------------------------
(* the process environment and the envfiles *)

\* the names the environment can hold
EnvNames == {APP_ENV}

\* the values the host sets them to
EnvValues(name) == {"", ENV_STAGING, "dev = x"}

Environments ==
    UNION {{e \in [names -> UNION {EnvValues(n) : n \in names}] :
                \A n \in names : e[n] \in EnvValues(n)} :
           names \in SUBSET EnvNames}

\* os.Getenv: the value, or "" for a name that is not set
Getenv(e, key) == IF key \in DOMAIN e THEN e[key] ELSE ""

\* os.Setenv
Setenv(e, key, value) == Put(e, key, value)

\* os.Unsetenv
Unsetenv(e, key) == Delete(e, key)

\* the files on disk: one that does not exist, one godotenv cannot parse, and
\* three KEY=VALUE files
MISSING_FILE == "AfileThatDoesNotExists"
MALFORMED_FILE == "malformed.env"
EMPTY_FILE == "empty.env"
BLANK_FILE == "blank.env"
DEV_FILE == "dev.env"

FileNames == {MISSING_FILE, MALFORMED_FILE, EMPTY_FILE, BLANK_FILE, DEV_FILE}

\* a Go string as the sequence of its pieces: each character an envfile
\* parser looks at (space, '#', '=', newline) is a piece of its own, every
\* run of other characters is one piece
Text(str) ==
    IF str = "" THEN <<>>
    ELSE IF str = "db #2" THEN <<"db", " ", "#", "2">>
    ELSE IF str = " db" THEN <<" ", "db">>
    ELSE IF str = "APP_ENV = dev" THEN <<"APP_ENV", " ", "=", " ", "dev">>
    ELSE <<str>>

\* the string a sequence of pieces spells
RECURSIVE Str(_)
Str(text) == IF text = <<>> THEN "" ELSE Head(text) \o Str(Tail(text))

\* bufio.Scanner's lines: the pieces between newlines; pieces after the last
\* newline are a line only when there are some
RECURSIVE Lines(_, _)
Lines(text, line) ==
    IF text = <<>> THEN IF line = <<>> THEN <<>> ELSE <<line>>
    ELSE IF Head(text) = "\n" THEN <<line>> \o Lines(Tail(text), <<>>)
    ELSE Lines(Tail(text), Append(line, Head(text)))

\* strings.TrimSpace
RECURSIVE TrimSpace(_)
TrimSpace(line) ==
    IF line = <<>> THEN line
    ELSE IF Head(line) = " " THEN TrimSpace(Tail(line))
    ELSE IF line[Len(line)] = " " THEN TrimSpace(SubSeq(line, 1, Len(line) - 1))
    ELSE line

\* godotenv's isIgnoredLine: blank lines and comment lines
IsIgnoredLine(line) ==
    LET trimmedLine == TrimSpace(line)
    IN Len(trimmedLine) = 0 \/ Head(trimmedLine) = "#"

\* the positions of piece c in line
Positions(line, c) == {i \in 1..Len(line) : line[i] = c}

\* the first position of piece c in line
Index(line, c) == CHOOSE i \in Positions(line, c) : \A j \in Positions(line, c) : i <= j

\* godotenv's parseLine for a line without quotes: the text from the first
\* '#' on is a comment; the rest splits at its first '=' into key and value,
\* both trimmed; a line without '=' is "Can't separate key from value"
ParseLine(line) ==
    LET kept == IF Positions(line, "#") = {} THEN line
                ELSE SubSeq(line, 1, Index(line, "#") - 1)
    IN IF Positions(kept, "=") = {}
       THEN [ok |-> FALSE, key |-> "", value |-> ""]
       ELSE [ok |-> TRUE,
             key |-> Str(TrimSpace(SubSeq(kept, 1, Index(kept, "=") - 1))),
             value |-> Str(TrimSpace(SubSeq(kept, Index(kept, "=") + 1, Len(kept))))]

\* godotenv.Parse: the pairs of the lines that are not ignored, a later line
\* for a key replacing an earlier one; the first line that does not parse
\* ends it with an error
RECURSIVE ParseLines(_, _, _)
ParseLines(lines, i, envMap) ==
    IF i > Len(lines) THEN [ok |-> TRUE, envMap |-> envMap]
    ELSE IF IsIgnoredLine(lines[i]) THEN ParseLines(lines, i + 1, envMap)
    ELSE LET parsed == ParseLine(lines[i])
         IN IF ~parsed.ok THEN [ok |-> FALSE, envMap |-> EmptyMap]
            ELSE ParseLines(lines, i + 1, Put(envMap, parsed.key, parsed.value))

Parse(text) == ParseLines(Lines(text, <<>>), 1, EmptyMap)

\* godotenv's readFile: os.Open's error, the parser's error, or the parsed
\* pairs. The parser's error carries no file name. A file CreateSampleFile
\* has written is read as written.
ReadFile(filename) ==
    IF filename \in DOMAIN fs
    THEN IF Parse(fs[filename]).ok
         THEN [err |-> NoError, envMap |-> Parse(fs[filename]).envMap]
         ELSE [err |-> Cause([Op |-> "", Path |-> "", Err |-> "Can't separate key from value"]),
               envMap |-> EmptyMap]
    ELSE IF filename = MISSING_FILE
    THEN [err |-> Cause([Op |-> "open", Path |-> filename, Err |-> "no such file or directory"]),
          envMap |-> EmptyMap]
    ELSE IF filename = MALFORMED_FILE
    THEN [err |-> Cause([Op |-> "", Path |-> "", Err |-> "Can't separate key from value"]),
          envMap |-> EmptyMap]
    ELSE IF filename = EMPTY_FILE
    THEN [err |-> NoError, envMap |-> EmptyMap]
    ELSE IF filename = BLANK_FILE
    THEN [err |-> NoError, envMap |-> [k \in {APP_ENV} |-> ""]]
    ELSE [err |-> NoError, envMap |-> [k \in {APP_ENV} |-> ENV_DEV]]

\* LoadFile as godotenv.Load would do it: a name the environment already
\* holds keeps its value
LoadFileNoOverwrite(e, envMap) ==
    [k \in (DOMAIN e) \cup (DOMAIN envMap) |->
        IF k \in DOMAIN e THEN e[k] ELSE envMap[k]]

\* godotenv's loadFile with overload = true: every pair of the file is set
\* in the environment, whatever the environment held
LoadFile(e, envMap) ==
    [k \in (DOMAIN e) \cup (DOMAIN envMap) |->
        IF k \in DOMAIN envMap THEN envMap[k] ELSE e[k]]

\* godotenv.Overload(filenames...): the files in the order given; the first
\* file that fails ends the call, with the earlier files already applied
RECURSIVE Overload(_, _, _)
Overload(e, filenames, i) ==
    IF i > Len(filenames)
    THEN [env |-> e, err |-> NoError]
    ELSE LET read == ReadFile(filenames[i])
         IN IF read.err.kind # "nil"
            THEN [env |-> e, err |-> read.err]
            ELSE Overload(LoadFile(e, read.envMap), filenames, i + 1)

MaxFiles == 2

\* the argument lists of Setup and loadEnv
FileLists == UNION {[1..n -> FileNames] : n \in 0..MaxFiles}

----------------------------------------------------------------------------
(* AppConfig *)

\* NewConfig that starts every Variable at its default
NewConfigDefaults(defaults) ==
    IF defaults.isNil THEN EmptyMap
    ELSE [n \in DOMAIN defaults.m |-> [defaults.m[n] EXCEPT !.Value = defaults.m[n].DefaultValue]]

NewConfig(defaults) == IF defaults.isNil THEN EmptyMap ELSE defaults.m

\* Resolve without the test for an empty environment value
ResolveNoEmptyCheck(vs, e) ==
    [confKey \in DOMAIN vs |-> [vs[confKey] EXCEPT !.Value = Getenv(e, confKey)]]

\* Resolve with os.LookupEnv for os.Getenv: a name set to "" overrides the default
ResolveLookupEnv(vs, e) ==
    [confKey \in DOMAIN vs |->
        [vs[confKey] EXCEPT !.Value =
            IF confKey \in DOMAIN e THEN e[confKey] ELSE vs[confKey].DefaultValue]]

\* the loop of loadEnv: each Variable gets its default, then the
\* environment's value when that is not empty
Resolve(vs, e) ==
    [confKey \in DOMAIN vs |->
        [vs[confKey] EXCEPT !.Value =
            IF Getenv(e, confKey) # "" THEN Getenv(e, confKey) ELSE vs[confKey].DefaultValue]]

\* loadEnv that reads the envfiles without leaving their values in the environment
loadEnvScoped(vs, e, envfiles) ==
    LET over == IF Len(envfiles) > 0 THEN Overload(e, envfiles, 1)
                ELSE [env |-> e, err |-> NoError]
    IN IF over.err.kind # "nil"
       THEN [vars |-> vs, env |-> e,
             err |-> Wrap(over.err, "Failed to overload variables with envfile(s)")]
       ELSE [vars |-> Resolve(vs, over.env), env |-> e, err |-> NoError]

\* loadEnv that resolves the Variables before it looks at Overload's error
loadEnvResolveFirst(vs, e, envfiles) ==
    LET over == IF Len(envfiles) > 0 THEN Overload(e, envfiles, 1)
                ELSE [env |-> e, err |-> NoError]
    IN IF over.err.kind # "nil"
       THEN [vars |-> Resolve(vs, over.env), env |-> over.env,
             err |-> Wrap(over.err, "Failed to overload variables with envfile(s)")]
       ELSE [vars |-> Resolve(vs, over.env), env |-> over.env, err |-> NoError]

loadEnv(vs, e, envfiles) ==
    LET over == IF Len(envfiles) > 0 THEN Overload(e, envfiles, 1)
                ELSE [env |-> e, err |-> NoError]
    IN IF over.err.kind # "nil"
       THEN [vars |-> vs, env |-> over.env,
             err |-> Wrap(over.err, "Failed to overload variables with envfile(s)")]
       ELSE [vars |-> Resolve(vs, over.env), env |-> over.env, err |-> NoError]

Lookup(vs, name) ==
    IF name \in DOMAIN vs THEN <<vs[name].Value, TRUE>> ELSE <<"", FALSE>>

\* Get that falls back to the default of a Variable whose Value is empty
GetDefaultWhenEmpty(vs, name) ==
    IF name \in DOMAIN vs /\ vs[name].Value = ""
    THEN vs[name].DefaultValue
    ELSE Lookup(vs, name)[1]

Get(vs, name) == Lookup(vs, name)[1]

\* the inner loop of ValidationErrors: the rules of one Variable, visited in
\* ruleOrder
RECURSIVE VisitRules(_, _, _, _)
VisitRules(confVar, ruleOrder, i, validationErrors) ==
    IF i > Len(ruleOrder)
    THEN validationErrors
    ELSE LET ruleName == ruleOrder[i]
             err == RuleValidate(confVar.Rules[ruleName], confVar.Value)
         IN VisitRules(confVar, ruleOrder, i + 1,
                       IF ~err.isNil THEN Put(validationErrors, ruleName, err.msg)
                       ELSE validationErrors)

\* fmt.Sprintf("%s = %s", confKey, confVar.Value)
ErrorKey(confKey, value) == confKey \o " = " \o value

\* the outer loop of ValidationErrors: the Variables, visited in varOrder
RECURSIVE VisitVars(_, _, _, _, _)
VisitVars(vs, varOrder, ruleOrders, i, allErrors) ==
    IF i > Len(varOrder)
    THEN allErrors
    ELSE LET confKey == varOrder[i]
             confVar == vs[confKey]
             validationErrors == VisitRules(confVar, ruleOrders[confKey], 1, EmptyMap)
         IN VisitVars(vs, varOrder, ruleOrders, i + 1,
                      IF Cardinality(DOMAIN validationErrors) > 0
                      THEN Put(allErrors, ErrorKey(confKey, confVar.Value), validationErrors)
                      ELSE allErrors)

\* a visiting order: the order of the Variables and, for each, of its rules
VisitOrders(vs) ==
    {[vars |-> vo, rules |-> ro] :
        vo \in Orders(DOMAIN vs),
        ro \in {f \in [DOMAIN vs -> UNION {Orders(DOMAIN vs[n].Rules) : n \in DOMAIN vs}] :
                    \A n \in DOMAIN vs : f[n] \in Orders(DOMAIN vs[n].Rules)}}

\* the validation.Errors map; the empty map stands for nil
ValidationErrors(vs, order) == VisitVars(vs, order.vars, order.rules, 1, EmptyMap)

Validate(vs, order) ==
    LET errs == ValidationErrors(vs, order)
    IN IF Cardinality(DOMAIN errs) > 0
       THEN [kind |-> "validation", wraps |-> <<>>, cause |-> NoCause, errs |-> errs]
       ELSE NoError

\* Setup that validates whether or not the envfiles loaded
SetupAlwaysValidates(vs, e, envfiles, order) ==
    LET loaded == loadEnv(vs, e, envfiles)
    IN [vars |-> loaded.vars, env |-> loaded.env, err |-> Validate(loaded.vars, order)]

Setup(vs, e, envfiles, order) ==
    LET loaded == loadEnv(vs, e, envfiles)
    IN IF loaded.err.kind # "nil"
       THEN [vars |-> loaded.vars, env |-> loaded.env,
             err |-> Wrap(loaded.err, "Failed to set Application Configuration")]
       ELSE [vars |-> loaded.vars, env |-> loaded.env, err |-> Validate(loaded.vars, order)]

\* strconv.ParseBool
ParseBool(str) ==
    IF str \in {"1", "t", "T", "TRUE", "true", "True"} THEN [value |-> TRUE, ok |-> TRUE]
    ELSE IF str \in {"0", "f", "F", "FALSE", "false", "False"} THEN [value |-> FALSE, ok |-> TRUE]
    ELSE [value |-> FALSE, ok |-> FALSE]

\* IsDebug by comparison with "true"
IsDebugOnlyTrue(vs) == Get(vs, APP_DEBUG) = "true"

IsDebug(vs) == ParseBool(Get(vs, APP_DEBUG)).value

IsDev(vs) == Get(vs, APP_ENV) = ENV_DEV

IsTest(vs) == Get(vs, APP_ENV) = ENV_TEST

IsStaging(vs) == Get(vs, APP_ENV) = ENV_STAGING

IsAcceptance(vs) == Get(vs, APP_ENV) = ENV_ACCEPTANCE

IsProduction(vs) == Get(vs, APP_ENV) = ENV_PRODUCTION

\* the level strings tried, in the spellings a host may give them
LevelTokens ==
    {"panic", "fatal", "error", "warn", "warning", "info", "debug", "trace",
     "WARN", "Info", "Warning", "", "verbose", "inf", "3"}

\* strings.ToLower on the level strings
ToLower(str) ==
    IF str = "WARN" THEN "warn"
    ELSE IF str = "Info" THEN "info"
    ELSE IF str = "Warning" THEN "warning"
    ELSE str

\* logrus.Level, by the name its String method gives
PanicLevel == "panic"
FatalLevel == "fatal"
ErrorLevel == "error"
WarnLevel == "warning"
InfoLevel == "info"
DebugLevel == "debug"
TraceLevel == "trace"

\* logrus.ParseLevel: the level of a name, whatever its case; an error for
\* every other string
ParseLevel(lvl) ==
    LET l == ToLower(lvl)
    IN IF l = "panic" THEN [level |-> PanicLevel, ok |-> TRUE]
       ELSE IF l = "fatal" THEN [level |-> FatalLevel, ok |-> TRUE]
       ELSE IF l = "error" THEN [level |-> ErrorLevel, ok |-> TRUE]
       ELSE IF l \in {"warn", "warning"} THEN [level |-> WarnLevel, ok |-> TRUE]
       ELSE IF l = "info" THEN [level |-> InfoLevel, ok |-> TRUE]
       ELSE IF l = "debug" THEN [level |-> DebugLevel, ok |-> TRUE]
       ELSE IF l = "trace" THEN [level |-> TraceLevel, ok |-> TRUE]
       ELSE [level |-> PanicLevel, ok |-> FALSE]

\* LogrusLogLevel that passes on what ParseLevel returned with its error: the
\* zero Level
LogrusLogLevelNoFallback(vs) == ParseLevel(Get(vs, APP_LOG_LEVEL)).level

LogrusLogLevel(vs) ==
    LET parsed == ParseLevel(Get(vs, APP_LOG_LEVEL))
    IN IF ~parsed.ok THEN InfoLevel ELSE parsed.level

LogLevel(vs) == Get(vs, APP_LOG_LEVEL)

Env(vs) == Get(vs, APP_ENV)

Port(vs) == Get(vs, APP_PORT)

DBSecretName(vs) == Get(vs, APP_DB_SECRET_NAME)

\* what os.Hostname may return
Hostnames == {[name |-> "ip-10-0-0-1", ok |-> TRUE], [name |-> "", ok |-> FALSE]}

GetHostName(e, host) ==
    IF Getenv(e, EC2_ID) # "" THEN Getenv(e, EC2_ID)
    ELSE IF host.ok THEN host.name
    ELSE "localhost"

Hostname(vs, e, host) == GetHostName(e, host)

\* fmt.Sprintf(":%s", ...)
Address(vs) == ":" \o Get(vs, APP_PORT)

\* the variable names and rule names in use, in ascending byte order
StringOrder ==
    <<"APP_DB_SECRET_NAME", "APP_DEBUG", "APP_ENV", "APP_ENV = dev", "APP_LOG_LEVEL",
      "Required", "Truthy value", "Valid environment", "Valid log level">>

\* a < b as Go compares strings
Less(a, b) ==
    (CHOOSE i \in 1..Len(StringOrder) : StringOrder[i] = a)
        < (CHOOSE i \in 1..Len(StringOrder) : StringOrder[i] = b)

\* sort.Strings that leaves the slice as it is
SortStringsNoSort(keys) == keys

\* sort.Strings
RECURSIVE SortStrings(_)
SortStrings(keys) ==
    IF keys = <<>> THEN <<>>
    ELSE LET rest == SortStrings(Tail(keys))
             before == SelectSeq(rest, LAMBDA k : Less(k, Head(keys)))
             after == SelectSeq(rest, LAMBDA k : ~Less(k, Head(keys)))
         IN before \o <<Head(keys)>> \o after

\* strings.Join(elems, sep)
RECURSIVE Join(_, _)
Join(elems, sep) ==
    IF elems = <<>> THEN ""
    ELSE IF Len(elems) = 1 THEN elems[1]
    ELSE elems[1] \o sep \o Join(Tail(elems), sep)

\* the constraint list of one Variable, its rules visited in ruleOrder
ConstraintList(ruleOrder) == Join(SortStrings(ruleOrder), ", ")

\* the rows DumpTable hands to the table writer, under the header
\* Variable Name, Description, Constraints, Default Value
DumpTable(vs, order) ==
    LET keys == SortStrings(order.vars)
    IN [i \in 1..Len(keys) |->
           <<keys[i], vs[keys[i]].Description, ConstraintList(order.rules[keys[i]]),
             vs[keys[i]].DefaultValue>>]

\* the text CreateSampleFile writes for data[i..]
RECURSIVE SampleLines(_, _)
SampleLines(data, i) ==
    IF i > Len(data) THEN <<>>
    ELSE LET elem == data[i]
         IN <<"#", " ", "Description: ">> \o Text(elem[3])
                \o <<" ", "#", " ", "Constraints: ">> \o Text(elem[4]) \o <<"\n">>
                \o Text(elem[1]) \o <<"=">> \o Text(elem[2]) \o <<"\n", "\n">>
                \o SampleLines(data, i + 1)

\* the text CreateSampleFile writes: the header, then for each Variable a
\* comment line and a NAME=default line
SampleFile(vs, order) ==
    LET keys == SortStrings(order.vars)
        data == [i \in 1..Len(keys) |->
                    <<keys[i], vs[keys[i]].DefaultValue, vs[keys[i]].Description,
                      ConstraintList(order.rules[keys[i]])>>]
    IN <<"#", " ", "Automatically created by the application from the config object",
         "\n", "\n">> \o SampleLines(data, 1)

----------------------------------------------------------------------------
(* Logger *)

LOG_FORMAT_ERRORS == "LOG_FORMAT_ERRORS"
LOG_LEVEL == "LOG_LEVEL"
LOG_DEV == "LOG_DEV"

\* gormLog.LogLevel
GormError == "gormLog.Error"
GormWarn == "gormLog.Warn"
GormInfo == "gormLog.Info"

\* 200 * time.Millisecond
DefaultSlowThreshold == "200ms"

BasicJSONFormatter == "BasicJSONFormatter"
BasicTextFormatter == "BasicTextFormatter"

\* a field map by its reference; the nil map has no fields
NilFields == 0

Fields(h, ref) == IF ref = NilFields THEN EmptyMap ELSE h[ref]

isFormatErrors(e) == ParseBool(Getenv(e, LOG_FORMAT_ERRORS)).value

isDevLog(e) == ParseBool(Getenv(e, LOG_DEV)).value

getLogLevel(debug, e) ==
    IF debug THEN DebugLevel
    ELSE IF ~ParseLevel(Getenv(e, LOG_LEVEL)).ok THEN InfoLevel
    ELSE ParseLevel(Getenv(e, LOG_LEVEL)).level

NewLogger(log, defaultFields, e) ==
    [log |-> log,
     defaultFields |-> defaultFields,
     formatErrors |-> isFormatErrors(e),
     gormConf |-> [SlowThreshold |-> DefaultSlowThreshold, LogLevel |-> GormInfo]]

\* logrus.New() as the two constructors configure it
NewLogrus(level, reportCaller, formatter) ==
    [Level |-> level, ReportCaller |-> reportCaller, Formatter |-> formatter]

\* the logger and the field map NewCommonLogger builds
NewCommonLogger(service, version, environment, host, debug, e) ==
    [logger |-> NewLogger(NewLogrus(getLogLevel(debug, e), debug,
                                    IF isDevLog(e) THEN BasicTextFormatter
                                    ELSE BasicJSONFormatter),
                          NilFields, e),
     fields |-> [k \in {"service", "version", "env", "host"} |->
                    IF k = "service" THEN service
                    ELSE IF k = "version" THEN version
                    ELSE IF k = "env" THEN environment
                    ELSE host]]

\* the gorm level NewCommonLoggerFromConfiguration leaves for a root level
GormLevelOf(level) ==
    IF level \in {PanicLevel, FatalLevel, ErrorLevel} THEN GormError
    ELSE IF level = WarnLevel THEN GormWarn
    ELSE GormInfo

\* the logger and the field map NewCommonLoggerFromConfiguration builds
NewCommonLoggerFromConfiguration(serviceName, serviceVersion, vs, e, host) ==
    LET level == IF ~ParseLevel(Get(vs, APP_LOG_LEVEL)).ok THEN InfoLevel
                 ELSE ParseLevel(Get(vs, APP_LOG_LEVEL)).level
        commonLog == NewLogger(NewLogrus(level, ParseBool(Get(vs, APP_DEBUG)).value,
                                         IF ParseBool(Get(vs, APP_LOG_DEV)).value
                                         THEN BasicTextFormatter ELSE BasicJSONFormatter),
                               NilFields, e)
    IN [logger |-> [commonLog EXCEPT !.gormConf.LogLevel = GormLevelOf(level)],
        fields |-> [k \in {"service", "version", "env", "host"} |->
                       IF k = "service" THEN serviceName
                       ELSE IF k = "version" THEN serviceVersion
                       ELSE IF k = "env" THEN Get(vs, APP_ENV)
                       ELSE Hostname(vs, e, host)]]

\* the component logger keeping the gorm settings NewLogger gave it
ComponentNoGormCopy(l, newLogger) == newLogger

\* the last two assignments of NewComponentLogger
ComponentGormCopy(l, newLogger) ==
    [newLogger EXCEPT !.gormConf.SlowThreshold = l.gormConf.SlowThreshold,
                      !.gormConf.LogLevel = l.gormConf.LogLevel]

\* newFields that is the parent's own map
ComponentFieldsShared(h, l, componentName) ==
    [fields |-> Put(Fields(h, l.defaultFields), "component", componentName),
     shared |-> l.defaultFields # NilFields]

\* newFields: a new map with the parent's fields and the component
ComponentFields(h, l, componentName) ==
    [fields |-> Put(Fields(h, l.defaultFields), "component", componentName),
     shared |-> FALSE]

\* NewComponentLogger: the new logger and the heap with its field map
\* NewComponentLogger that gives the new Logger the formatErrors of l
NewComponentLoggerInherit(h, l, componentName, e) ==
    LET newFields == ComponentFields(h, l, componentName)
        ref == IF newFields.shared THEN l.defaultFields ELSE Len(h) + 1
        newLogger == [NewLogger(l.log, ref, e) EXCEPT !.formatErrors = l.formatErrors]
    IN [logger |-> ComponentGormCopy(l, newLogger),
        heap |-> IF newFields.shared
                 THEN [h EXCEPT ![ref] = newFields.fields]
                 ELSE Append(h, newFields.fields)]

NewComponentLogger(h, l, componentName, e) ==
    LET newFields == ComponentFields(h, l, componentName)
        ref == IF newFields.shared THEN l.defaultFields ELSE Len(h) + 1
        newLogger == NewLogger(l.log, ref, e)
    IN [logger |-> ComponentGormCopy(l, newLogger),
        heap |-> IF newFields.shared
                 THEN [h EXCEPT ![ref] = newFields.fields]
                 ELSE Append(h, newFields.fields)]

\* Entry.WithFields that keeps the entry's datum when a field has its key
EntryWithFieldsKeepData(data, fields) ==
    [k \in (DOMAIN data) \cup (DOMAIN fields) |->
        IF k \in DOMAIN data THEN data[k] ELSE fields[k]]

\* logrus: Entry.WithFields, a new map with the entry's data and the fields,
\* a field replacing a datum of the same key
EntryWithFields(data, fields) ==
    [k \in (DOMAIN data) \cup (DOMAIN fields) |->
        IF k \in DOMAIN fields THEN fields[k] ELSE data[k]]

\* l.log.WithFields(l.defaultFields)
LogWithFields(h, l) == EntryWithFields(EmptyMap, Fields(h, l.defaultFields))

Entry(h, l) == LogWithFields(h, l)

WithField(h, l, key, value) ==
    EntryWithFields(LogWithFields(h, l), [k \in {key} |-> value])

WithFields(h, l, fields) == EntryWithFields(LogWithFields(h, l), fields)

\* the errors handed to WithError. detail is what %+v prints, in pieces:
\* newlines and tabs are pieces of their own
NilErr == [kind |-> "nil", msg |-> "", detail |-> <<>>]

\* errors.New("Test error")
PlainErr == [kind |-> "plain", msg |-> "Test error", detail |-> <<"Test error">>]

\* what errors.Unwrap returns for errors.Wrap(errors.New("Test Error"),
\* "Cannot get something"): the message layer around the cause and its stack
WrapInner ==
    [kind |-> "plain", msg |-> "Cannot get something: Test Error",
     detail |-> <<"Test Error", "\n", "logger.getError", "\n", "\t", "logger_test.go:133",
                  "\n", "Cannot get something">>]

\* an inner error whose detail has a carriage return before a newline, a
\* newline at its end and a tab inside a line
CrlfInner ==
    [kind |-> "plain", msg |-> "read failed", detail |-> <<"read", "\t", "failed", "\r\n", "EOF", "\n">>]

\* fmt.Errorf("ctx: %w", errors.New("Test error")) unwraps to the plain error
Errors ==
    {NilErr, PlainErr,
     [kind |-> "wrapped", msg |-> "Cannot get something: Test Error", detail |-> <<>>, inner |-> WrapInner],
     [kind |-> "wrapped", msg |-> "ctx: Test error", detail |-> <<>>, inner |-> PlainErr],
     [kind |-> "wrapped", msg |-> "io: read failed", detail |-> <<>>, inner |-> CrlfInner]}

\* regexp `\r?\n` replaced by " --- "
RECURSIVE ReplaceNewlines(_)
ReplaceNewlines(str) ==
    IF str = <<>> THEN <<>>
    ELSE IF Head(str) \in {"\n", "\r\n"} THEN <<" --- ">> \o ReplaceNewlines(Tail(str))
    ELSE <<Head(str)>> \o ReplaceNewlines(Tail(str))

\* strings.ReplaceAll(str, old, new) for a one-character old
RECURSIVE ReplaceAll(_, _, _)
ReplaceAll(str, old, new) ==
    IF str = <<>> THEN <<>>
    ELSE (IF Head(str) = old THEN new ELSE <<Head(str)>>) \o ReplaceAll(Tail(str), old, new)

\* parseError that puts a space for a tab
parseErrorTabsToSpaces(l, err) ==
    IF err.kind = "nil" THEN "<nil>"
    ELSE IF err.kind # "wrapped" THEN err.msg
    ELSE IF l.formatErrors
    THEN Str(ReplaceAll(ReplaceNewlines(err.inner.detail), "\t", <<" ">>))
    ELSE Str(err.inner.detail)

parseError(l, err) ==
    IF err.kind = "nil" THEN "<nil>"
    ELSE IF err.kind # "wrapped" THEN err.msg
    ELSE IF l.formatErrors
    THEN Str(ReplaceAll(ReplaceNewlines(err.inner.detail), "\t", <<>>))
    ELSE Str(err.inner.detail)

WithError(h, l, err) ==
    EntryWithFields(LogWithFields(h, l), [k \in {"error"} |-> parseError(l, err)])

\* the text inBrackets captures in a piece of a format: pieces are a
\* bracketed group, a space, or text without brackets
InBrackets(piece) ==
    IF piece = "[error]" THEN "error"
    ELSE IF piece = "[warn]" THEN "warn"
    ELSE IF piece = "[info]" THEN "info"
    ELSE IF piece = "[debug]" THEN "debug"
    ELSE IF piece = "[rows:1]" THEN "rows:1"
    ELSE ""

\* inBrackets.FindAllStringSubmatch(msg, -1): the captures, leftmost first
FindAllStringSubmatch(msg) ==
    LET found == SelectSeq(msg, LAMBDA piece : InBrackets(piece) # "")
    IN [i \in 1..Len(found) |-> InBrackets(found[i])]

\* getLogLevelFromGormMsg that looks at every bracketed group
getLogLevelAnyMatch(msg) ==
    LET matches == FindAllStringSubmatch(msg)
    IN IF \E i \in 1..Len(matches) : matches[i] = "error" THEN LOG_LEVEL_ERROR
       ELSE IF \E i \in 1..Len(matches) : matches[i] = "warn" THEN LOG_LEVEL_WARN
       ELSE LOG_LEVEL_INFO

getLogLevelFromGormMsg(msg) ==
    LET matches == FindAllStringSubmatch(msg)
    IN IF Len(matches) > 0
       THEN IF matches[1] = "error" THEN LOG_LEVEL_ERROR
            ELSE IF matches[1] = "warn" THEN LOG_LEVEL_WARN
            ELSE LOG_LEVEL_INFO
       ELSE LOG_LEVEL_INFO

\* strings.Replace(format, tag + " ", "", 1): the first tag that a space
\* follows goes, with the space
ReplaceTag(format, tag) ==
    LET at == {i \in 1..(Len(format) - 1) : format[i] = tag /\ format[i + 1] = " "}
    IN IF at = {} THEN format
       ELSE LET first == CHOOSE i \in at : \A j \in at : i <= j
            IN SubSeq(format, 1, first - 1) \o SubSeq(format, first + 2, Len(format))

\* Printf: the entry handed to logrus: its level, message and fields
Printf(h, l, format) ==
    LET level == getLogLevelFromGormMsg(format)
    IN IF level = LOG_LEVEL_ERROR
       THEN [Level |-> ErrorLevel, Message |-> Str(ReplaceTag(format, "[error]")), Data |-> Entry(h, l)]
       ELSE IF level = LOG_LEVEL_WARN
       THEN [Level |-> WarnLevel, Message |-> Str(ReplaceTag(format, "[warn]")), Data |-> Entry(h, l)]
       ELSE [Level |-> InfoLevel, Message |-> Str(ReplaceTag(format, "[info]")), Data |-> Entry(h, l)]

----------------------------------------------------------------------------
(* the operations as steps *)

\* no Logger has been built
NoLoggers ==
    /\ loggers = <<>>
    /\ heap = <<>>
    /\ parentOf = <<>>

Init ==
    /\ \E defaults \in SchemaInputs :
           /\ vars = NewConfig(defaults)
           /\ call = [op |-> "NewConfig", defaults |-> defaults]
    /\ env \in Environments
    /\ fs = EmptyMap
    /\ NoLoggers

\* Setup(envfiles...) for an argument list of lists, with every order its
\* range loops may take
SetupWith(lists) ==
    LET orders == VisitOrders(vars)
    IN \E envfiles \in lists :
           \E done \in {Setup(vars, env, envfiles, order) : order \in orders} :
               /\ vars' = done.vars
               /\ env' = done.env
               /\ call' = [op |-> "Setup", files |-> envfiles, env0 |-> env, err |-> done.err]
               /\ UNCHANGED <<fs, logVars>>

SetupCall == SetupWith(FileLists)

\* loadEnv(), as the package's own test calls it: without envfiles
LoadEnvCall ==
    LET done == loadEnv(vars, env, <<>>)
    IN /\ vars' = done.vars
       /\ env' = done.env
       /\ call' = [op |-> "loadEnv", files |-> <<>>, env0 |-> env, err |-> done.err]
       /\ UNCHANGED <<fs, logVars>>

ValidateCall ==
    \E err \in {Validate(vars, order) : order \in VisitOrders(vars)} :
        /\ call' = [op |-> "Validate", err |-> err]
        /\ UNCHANGED <<vars, env, fs, logVars>>

\* the names the accessors are asked for
LookupNames == SchemaNames \cup {APP_DEBUG, "Som-var-which-is-not-set"}

LookupCall ==
    \E name \in LookupNames :
        /\ call' = [op |-> "Lookup", name |-> name,
                    val |-> Lookup(vars, name)[1], ok |-> Lookup(vars, name)[2]]
        /\ UNCHANGED <<vars, env, fs, logVars>>

\* Get that resolves a Variable it finds without a value
GetCallResolving ==
    \E name \in LookupNames :
        /\ call' = [op |-> "Get", name |-> name, val |-> Get(vars, name)]
        /\ vars' = IF name \in DOMAIN vars /\ vars[name].Value = ""
                   THEN [vars EXCEPT ![name].Value = vars[name].DefaultValue]
                   ELSE vars
        /\ UNCHANGED <<env, fs, logVars>>

GetCall ==
    \E name \in LookupNames :
        /\ call' = [op |-> "Get", name |-> name, val |-> Get(vars, name)]
        /\ UNCHANGED <<vars, env, fs, logVars>>

IsDebugCall ==
    /\ call' = [op |-> "IsDebug", debug |-> IsDebug(vars)]
    /\ UNCHANGED <<vars, env, fs, logVars>>

\* IsDev, IsTest, IsStaging, IsAcceptance, IsProduction
IsEnvCall ==
    /\ \E is \in {[op |-> "IsDev", is |-> IsDev(vars)],
                   [op |-> "IsTest", is |-> IsTest(vars)],
                   [op |-> "IsStaging", is |-> IsStaging(vars)],
                   [op |-> "IsAcceptance", is |-> IsAcceptance(vars)],
                   [op |-> "IsProduction", is |-> IsProduction(vars)]} : call' = is
    /\ UNCHANGED <<vars, env, fs, logVars>>

LogrusLogLevelCall ==
    /\ call' = [op |-> "LogrusLogLevel", level |-> LogrusLogLevel(vars)]
    /\ UNCHANGED <<vars, env, fs, logVars>>

LogLevelCall ==
    /\ call' = [op |-> "LogLevel", val |-> LogLevel(vars)]
    /\ UNCHANGED <<vars, env, fs, logVars>>

\* Env, Port, DBSecretName, Address
StringAccessorCall ==
    /\ \E got \in {[op |-> "Env", val |-> Env(vars)],
                    [op |-> "Port", val |-> Port(vars)],
                    [op |-> "DBSecretName", val |-> DBSecretName(vars)],
                    [op |-> "Address", val |-> Address(vars)]} : call' = got
    /\ UNCHANGED <<vars, env, fs, logVars>>

HostnameCall ==
    /\ \E host \in Hostnames : call' = [op |-> "Hostname", val |-> Hostname(vars, env, host)]
    /\ UNCHANGED <<vars, env, fs, logVars>>

DumpTableCall ==
    \E rows \in {DumpTable(vars, order) : order \in VisitOrders(vars)} :
        /\ call' = [op |-> "DumpTable", rows |-> rows]
        /\ UNCHANGED <<vars, env, fs, logVars>>

\* the names CreateSampleFile is given: a file that exists, which it overwrites
SampleFiles == {DEV_FILE}

CreateSampleFileCall ==
    \E filename \in SampleFiles :
        \E text \in {SampleFile(vars, order) : order \in VisitOrders(vars)} :
            /\ fs' = Put(fs, filename, text)
            /\ call' = [op |-> "CreateSampleFile", name |-> filename, err |-> NoError]
            /\ UNCHANGED <<vars, env, logVars>>

\* the host program changes its environment between calls
SetenvCall ==
    \E key \in EnvNames : \E value \in EnvValues(key) :
        /\ env' = Setenv(env, key, value)
        /\ call' = [op |-> "Setenv", name |-> key]
        /\ UNCHANGED <<vars, fs, logVars>>

UnsetenvCall ==
    \E key \in EnvNames :
        /\ env' = Unsetenv(env, key)
        /\ call' = [op |-> "Unsetenv", name |-> key]
        /\ UNCHANGED <<vars, fs, logVars>>

\* the calls that read the store
Reads ==
    \/ ValidateCall
    \/ LookupCall
    \/ GetCall
    \/ IsDebugCall
    \/ IsEnvCall
    \/ LogrusLogLevelCall
    \/ LogLevelCall
    \/ StringAccessorCall
    \/ HostnameCall
    \/ DumpTableCall

Next ==
    \/ SetupCall
    \/ LoadEnvCall
    \/ Reads
    \/ SetenvCall
    \/ UnsetenvCall

\* the values IsDebug is tried on: every token strconv.ParseBool knows and some it does not
DebugTokens ==
    {"1", "t", "T", "TRUE", "true", "True", "0", "f", "F", "FALSE", "false", "False",
     "", "off", "tRuE", "yes"}

\* a store with APP_DEBUG registered, or with no variable, and any token in
\* the environment
InitDebug ==
    /\ \E defaults \in {NilMap,
                        [isNil |-> FALSE,
                         m |-> [n \in {APP_DEBUG} |->
                                   Variable("", "true", "Debug mode",
                                            [r \in {"Truthy value"} |-> InTruthyValues])]]} :
           /\ vars = NewConfig(defaults)
           /\ call = [op |-> "NewConfig", defaults |-> defaults]
    /\ env \in {EmptyMap} \cup {[n \in {APP_DEBUG} |-> t] : t \in DebugTokens}
    /\ fs = EmptyMap
    /\ NoLoggers

SpecDebug == InitDebug /\ [][Next]_allVars

\* a store with APP_LOG_LEVEL registered, or with no variable, and any level
\* string in the environment
InitLevel ==
    /\ \E defaults \in {NilMap,
                        [isNil |-> FALSE,
                         m |-> [n \in {APP_LOG_LEVEL} |->
                                   Variable("", LOG_LEVEL_DEBUG, "Level of logging",
                                            [r \in {"Required", "Valid log level"} |->
                                                IF r = "Required" THEN Required
                                                ELSE InValidLogLevels])]]} :
           /\ vars = NewConfig(defaults)
           /\ call = [op |-> "NewConfig", defaults |-> defaults]
    /\ env \in {EmptyMap} \cup {[n \in {APP_LOG_LEVEL} |-> t] : t \in LevelTokens}
    /\ fs = EmptyMap
    /\ NoLoggers

SpecLevel == InitLevel /\ [][Next]_allVars

\* the schemas a sample file is written for: the database secret's name,
\* free text without rules, and the environment
SampleSchemas ==
    {s \in UNION {[names -> {Variable("", d, "The Database's secret's name in AWS SecretsManager", EmptyMap) :
                                 d \in {"", "db", "db #2", " db"}}
                             \cup {Variable("", ENV_TEST, "The environment of the application",
                                            [r \in {"Required", "Valid environment"} |->
                                                IF r = "Required" THEN Required
                                                ELSE InValidEnvironments])}] :
                   names \in SUBSET {APP_DB_SECRET_NAME, APP_ENV}} :
        \A n \in DOMAIN s : (n = APP_ENV) <=> (s[n].DefaultValue = ENV_TEST)}

InitSample ==
    /\ \E defaults \in {NilMap} \cup {[isNil |-> FALSE, m |-> s] : s \in SampleSchemas} :
           /\ vars = NewConfig(defaults)
           /\ call = [op |-> "NewConfig", defaults |-> defaults]
    /\ env \in {EmptyMap,
                [n \in {APP_ENV, APP_DB_SECRET_NAME} |-> IF n = APP_ENV THEN ENV_STAGING ELSE "db0"]}
    /\ fs = EmptyMap
    /\ NoLoggers

\* the argument lists of a Setup that loads the sample file
SampleLists == {<<>>} \cup {<<filename>> : filename \in SampleFiles}

SetupSampleCall == SetupWith(SampleLists)

NextSample ==
    \/ CreateSampleFileCall
    \/ SetupSampleCall
    \/ LoadEnvCall
    \/ Reads
    \/ SetenvCall
    \/ UnsetenvCall

SpecSample == InitSample /\ [][NextSample]_allVars

----------------------------------------------------------------------------
(* the Logger's operations as steps *)

MaxLoggers == 2

\* logrusTest.NewNullLogger(): logrus.New() writing nowhere
NullLogger == NewLogrus(InfoLevel, FALSE, "TextFormatter")

\* the field maps callers hand to NewLogger
LoggerFields ==
    {[k \in {"service"} |-> "test-service"],
     [k \in {"service", "component"} |-> IF k = "service" THEN "test-service" ELSE "root"]}

ComponentNames == {"GORM", "test-device"}

\* the keys and the value callers add to an entry; the value is also what a
\* caller writes to the service field of a map it holds
FieldKeys == {"service", "extra-field"}

FieldValue == "extra-value"

\* the maps handed to WithFields
ExtraFields ==
    {[k \in {"extra-field1", "extra-field2"} |-> "extra-value"],
     [k \in {"service", "error"} |-> "extra-value"]}

\* the formats handed to Printf, in pieces; the last two are gorm's own
\* error and trace formats
Formats ==
    {<<"[error]", " ", "GORM Error">>,
     <<"[warn]", " ", "GORM Warn">>,
     <<"[info]", " ", "GORM Info">>,
     <<"GORM Info">>,
     <<"[error]", "GORM Error">>,
     <<"[debug]", " ", "GORM Debug">>,
     <<"failed", " ", "[error]">>,
     <<"[rows:1]", " ", "[error]", " ", "GORM Error">>,
     <<"%s", "\n", "[error]", " ">>,
     <<"%s", "\n", "[%.3fms]", " ", "[rows:1]", " ", "%s">>}

\* NewLogger, called once: the root Logger of the process
NewLoggerCall ==
    /\ loggers = <<>>
    /\ \/ /\ loggers' = Append(loggers, NewLogger(NullLogger, NilFields, env))
          /\ heap' = heap
       \/ \E defaultFields \in LoggerFields :
             /\ heap' = Append(heap, defaultFields)
             /\ loggers' = Append(loggers, NewLogger(NullLogger, Len(heap) + 1, env))
    /\ parentOf' = Append(parentOf, 0)
    /\ call' = [op |-> "NewLogger", logger |-> Len(loggers) + 1]
    /\ UNCHANGED <<vars, env, fs>>

\* NewComponentLogger, while fewer than max Loggers exist
NewComponentLoggerWith(max) ==
    /\ Len(loggers) < max
    /\ \E p \in 1..Len(loggers) : \E componentName \in ComponentNames :
          LET done == NewComponentLogger(heap, loggers[p], componentName, env)
          IN /\ loggers' = Append(loggers, done.logger)
             /\ heap' = done.heap
             /\ parentOf' = Append(parentOf, p)
             /\ call' = [op |-> "NewComponentLogger", parent |-> p, name |-> componentName,
                         logger |-> Len(loggers) + 1,
                         fields |-> Fields(heap, loggers[p].defaultFields)]
    /\ UNCHANGED <<vars, env, fs>>

\* NewGormLogger: the component logger, and the adapter gormLog.New builds
\* from a copy of its gormConf
NewGormLoggerWith(max) ==
    /\ Len(loggers) < max
    /\ \E p \in 1..Len(loggers) : \E componentName \in ComponentNames :
          LET done == NewComponentLogger(heap, loggers[p], componentName, env)
          IN /\ loggers' = Append(loggers, done.logger)
             /\ heap' = done.heap
             /\ parentOf' = Append(parentOf, p)
             /\ call' = [op |-> "NewGormLogger", parent |-> p, name |-> componentName,
                         logger |-> Len(loggers) + 1,
                         fields |-> Fields(heap, loggers[p].defaultFields),
                         adapter |-> done.logger.gormConf]
    /\ UNCHANGED <<vars, env, fs>>

NewComponentLoggerCall == NewComponentLoggerWith(MaxLoggers)

NewGormLoggerCall == NewGormLoggerWith(MaxLoggers)

EntryCall ==
    /\ \E i \in 1..Len(loggers) :
          call' = [op |-> "Entry", logger |-> i, data |-> Entry(heap, loggers[i])]
    /\ UNCHANGED <<vars, env, fs, logVars>>

WithFieldCall ==
    /\ \E i \in 1..Len(loggers) : \E key \in FieldKeys :
          call' = [op |-> "WithField", logger |-> i,
                   added |-> [k \in {key} |-> FieldValue],
                   data |-> WithField(heap, loggers[i], key, FieldValue)]
    /\ UNCHANGED <<vars, env, fs, logVars>>

WithFieldsCall ==
    /\ \E i \in 1..Len(loggers) : \E fields \in ExtraFields :
          call' = [op |-> "WithFields", logger |-> i, added |-> fields,
                   data |-> WithFields(heap, loggers[i], fields)]
    /\ UNCHANGED <<vars, env, fs, logVars>>

WithErrorCall ==
    /\ \E i \in 1..Len(loggers) : \E err \in Errors :
          call' = [op |-> "WithError", logger |-> i, err |-> err,
                   data |-> WithError(heap, loggers[i], err)]
    /\ UNCHANGED <<vars, env, fs, logVars>>

\* Printf: the entry it hands to logrus is what the call leaves behind
PrintfCall ==
    /\ \E i \in 1..Len(loggers) : \E format \in Formats :
          call' = [op |-> "Printf", logger |-> i, format |-> format,
                   entry |-> Printf(heap, loggers[i], format)]
    /\ UNCHANGED <<vars, env, fs, logVars>>

\* a caller writes a field to a map it holds: the map it handed to
\* NewLogger, or a logger's defaultFields
SetFieldCall ==
    /\ \E ref \in 1..Len(heap) :
          /\ heap' = [heap EXCEPT ![ref] = Put(@, "service", FieldValue)]
          /\ call' = [op |-> "SetField", ref |-> ref, key |-> "service"]
    /\ UNCHANGED <<vars, env, fs, loggers, parentOf>>

\* the host sets or unsets LOG_FORMAT_ERRORS
FormatErrorsSetenvCall ==
    /\ \/ env' = Setenv(env, LOG_FORMAT_ERRORS, "true")
       \/ env' = Unsetenv(env, LOG_FORMAT_ERRORS)
    /\ call' = [op |-> "Setenv", name |-> LOG_FORMAT_ERRORS]
    /\ UNCHANGED <<vars, fs, logVars>>

\* no store, no Logger yet, LOG_FORMAT_ERRORS set or not
InitLogger ==
    /\ vars = NewConfig(NilMap)
    /\ call = [op |-> "NewConfig", defaults |-> NilMap]
    /\ env \in {EmptyMap, [n \in {LOG_FORMAT_ERRORS} |-> "true"]}
    /\ fs = EmptyMap
    /\ NoLoggers

NextLogger ==
    \/ NewLoggerCall
    \/ NewComponentLoggerCall
    \/ NewGormLoggerCall
    \/ EntryCall
    \/ WithFieldCall
    \/ WithFieldsCall
    \/ WithErrorCall
    \/ PrintfCall
    \/ SetFieldCall
    \/ FormatErrorsSetenvCall

SpecLogger == InitLogger /\ [][NextLogger]_allVars

\* the level strings of the stores a common logger is built from
RootLevelTokens ==
    {"panic", "fatal", "error", "warn", "warning", "info", "debug", "trace", "WARN", "verbose", ""}

NewCommonLoggerFromConfigurationCall ==
    /\ Len(loggers) < MaxLoggers
    /\ \E host \in Hostnames :
          LET done == NewCommonLoggerFromConfiguration("test-service", "v1.2.3", vars, env, host)
          IN /\ heap' = Append(heap, done.fields)
             /\ loggers' = Append(loggers, [done.logger EXCEPT !.defaultFields = Len(heap) + 1])
    /\ parentOf' = Append(parentOf, 0)
    /\ call' = [op |-> "NewCommonLoggerFromConfiguration", logger |-> Len(loggers) + 1,
                level |-> Get(vars, APP_LOG_LEVEL)]
    /\ UNCHANGED <<vars, env, fs>>

NewCommonLoggerCall ==
    /\ Len(loggers) < MaxLoggers
    /\ \E debug \in BOOLEAN :
          LET done == NewCommonLogger("test-service", "v1.2.3", "test", "docker", debug, env)
          IN /\ heap' = Append(heap, done.fields)
             /\ loggers' = Append(loggers, [done.logger EXCEPT !.defaultFields = Len(heap) + 1])
    /\ parentOf' = Append(parentOf, 0)
    /\ call' = [op |-> "NewCommonLogger", logger |-> Len(loggers) + 1]
    /\ UNCHANGED <<vars, env, fs>>

\* a store with APP_LOG_LEVEL registered under any of the level strings as
\* its default, or with no variable; LOG_LEVEL and LOG_DEV set or not
InitGorm ==
    /\ \E defaults \in {NilMap} \cup
                        {[isNil |-> FALSE,
                          m |-> [n \in {APP_LOG_LEVEL} |->
                                    Variable("", t, "Level of logging",
                                             [r \in {"Valid log level"} |-> InValidLogLevels])]] :
                           t \in RootLevelTokens} :
           /\ vars = NewConfig(defaults)
           /\ call = [op |-> "NewConfig", defaults |-> defaults]
    /\ env \in {EmptyMap,
                [n \in {LOG_LEVEL, LOG_DEV} |-> IF n = LOG_LEVEL THEN "error" ELSE "true"]}
    /\ fs = EmptyMap
    /\ NoLoggers

\* the Loggers of a chain of derivations from a common logger
MaxChain == 3

NewComponentLoggerChainCall == NewComponentLoggerWith(MaxChain)

NewGormLoggerChainCall == NewGormLoggerWith(MaxChain)

NextGorm ==
    \/ LoadEnvCall
    \/ NewCommonLoggerFromConfigurationCall
    \/ NewCommonLoggerCall
    \/ NewComponentLoggerChainCall
    \/ NewGormLoggerChainCall

SpecGorm == InitGorm /\ [][NextGorm]_allVars

Spec == Init /\ [][Next]_allVars

----------------------------------------------------------------------------
(* what the claims speak of *)

\* the last call was a Setup (or loadEnv) whose envfiles all loaded
SetupLoaded == call.op = "Setup" /\ call.err.kind # "wrapped"

\* the positions of the envfiles that have a line for key
FilesWith(key, files) == {i \in 1..Len(files) : key \in DOMAIN ReadFile(files[i]).envMap}

\* the value the last envfile with a line for key gives it
LastFileValue(key, files) ==
    LET last == CHOOSE i \in FilesWith(key, files) : \A j \in FilesWith(key, files) : j <= i
    IN ReadFile(files[last]).envMap[key]

\* the position of the first envfile that cannot be loaded
FirstBadFile(files) ==
    CHOOSE i \in 1..Len(files) :
        /\ ReadFile(files[i]).err.kind # "nil"
        /\ \A j \in 1..(i - 1) : ReadFile(files[j]).err.kind = "nil"

AllFilesLoad(files) == \A i \in 1..Len(files) : ReadFile(files[i]).err.kind = "nil"

----------------------------------------------------------------------------
\* C1 as stated: after a successful Setup, a non-empty value from some envfile
\* is the resolved value; otherwise a non-empty value the environment held
\* before the call; otherwise the default.
C1_Original ==
    (call.op = "Setup" /\ call.err.kind = "nil") =>
        \A K \in DOMAIN vars :
            LET given == {ReadFile(call.files[i]).envMap[K] : i \in FilesWith(K, call.files)} \ {""}
            IN IF given # {} THEN vars[K].Value \in given
               ELSE IF Getenv(call.env0, K) # ""
                    THEN vars[K].Value = Getenv(call.env0, K)
                    ELSE vars[K].Value = vars[K].DefaultValue

\* C1 amended: after a Setup whose envfiles all loaded, for every registered
\* variable K: when some envfile has a line for K, the value of the last such
\* line decides: non-empty, it is the resolved value whatever the environment
\* held; empty, the resolved value is K's default whatever the environment
\* held. When no envfile has a line for K, the resolved value is the
\* environment's value for K if that is non-empty and K's default otherwise.
C1_Precedence ==
    SetupLoaded =>
        \A K \in DOMAIN vars :
            vars[K].Value =
                IF FilesWith(K, call.files) # {}
                THEN IF LastFileValue(K, call.files) # ""
                     THEN LastFileValue(K, call.files)
                     ELSE vars[K].DefaultValue
                ELSE IF K \in DOMAIN call.env0 /\ call.env0[K] # ""
                     THEN call.env0[K]
                     ELSE vars[K].DefaultValue

\* an envfile value has replaced a different, non-empty environment value
C1_Witness ==
    /\ SetupLoaded
    /\ \E K \in DOMAIN vars :
        /\ FilesWith(K, call.files) # {}
        /\ LastFileValue(K, call.files) # ""
        /\ Getenv(call.env0, K) \notin {"", LastFileValue(K, call.files)}
        /\ vars[K].DefaultValue \notin {"", LastFileValue(K, call.files)}
        /\ vars[K].Value = LastFileValue(K, call.files)

----------------------------------------------------------------------------
\* a key with a default, an environment value and an envfile value, all
\* different, in the state a Setup with that envfile has left
C2_Case(K) ==
    /\ SetupLoaded
    /\ K \in DOMAIN vars
    /\ FilesWith(K, call.files) # {}
    /\ LastFileValue(K, call.files) # ""
    /\ vars[K].DefaultValue # ""
    /\ Getenv(call.env0, K) # ""
    /\ Cardinality({vars[K].DefaultValue, Getenv(call.env0, K),
                    LastFileValue(K, call.files)}) = 3

\* the next step is a Setup without envfiles
C2_SetupAgain == call'.op = "Setup" /\ call'.files = <<>>

\* C2 as stated: Setup with the envfile resolves K to the file's value, and a
\* second Setup on the same store without the envfile resolves K to the value
\* the environment held before the first.
C2_Original ==
    [][\A K \in SchemaNames :
          C2_Case(K) =>
              /\ vars[K].Value = LastFileValue(K, call.files)
              /\ C2_SetupAgain => vars'[K].Value = Getenv(call.env0, K)]_allVars

\* C2 amended: Setup with the envfile resolves K to the file's value; a
\* second Setup on the same store without the envfile, the environment left
\* alone in between, still resolves K to the file's value, which the first
\* Setup wrote over the environment's value.
C2_FileValueStays ==
    [][\A K \in SchemaNames :
          C2_Case(K) =>
              /\ vars[K].Value = LastFileValue(K, call.files)
              /\ Getenv(env, K) = LastFileValue(K, call.files)
              /\ C2_SetupAgain => vars'[K].Value = LastFileValue(K, call.files)]_allVars

\* a Setup without envfiles has resolved a key to a value that only an
\* envfile can have put in the environment
C2_Witness ==
    /\ call.op = "Setup"
    /\ call.files = <<>>
    /\ APP_ENV \in DOMAIN vars
    /\ Getenv(call.env0, APP_ENV) = ENV_DEV
    /\ vars[APP_ENV].DefaultValue = ENV_TEST
    /\ vars[APP_ENV].Value = ENV_DEV

----------------------------------------------------------------------------
\* C3: after Setup or loadEnv without envfiles, a registered variable whose
\* name the environment does not hold, or holds with the empty value, has its
\* default as resolved value.
C3_Defaults ==
    (call.op \in {"Setup", "loadEnv"} /\ call.files = <<>>) =>
        \A K \in DOMAIN vars :
            (K \notin DOMAIN call.env0 \/ call.env0[K] = "") =>
                vars[K].Value = vars[K].DefaultValue

\* loadEnv() has given a non-empty default to a variable whose name the
\* environment holds with the empty value, and to one it does not hold
C3_Witness ==
    /\ call.op = "loadEnv"
    /\ call.files = <<>>
    /\ \E K \in DOMAIN vars :
        /\ K \in DOMAIN call.env0 /\ call.env0[K] = ""
        /\ vars[K].DefaultValue # ""
        /\ vars[K].Value = vars[K].DefaultValue
    /\ \E K \in DOMAIN vars :
        /\ K \notin DOMAIN call.env0
        /\ vars[K].DefaultValue # ""
        /\ vars[K].Value = vars[K].DefaultValue

----------------------------------------------------------------------------
\* C4 as stated: with several envfiles, a key that more than one of them has
\* resolves to the value of the last that has it.
C4_Original ==
    (SetupLoaded /\ Len(call.files) > 1) =>
        \A K \in DOMAIN vars :
            Cardinality(FilesWith(K, call.files)) > 1 =>
                vars[K].Value = LastFileValue(K, call.files)

\* C4 amended: with several envfiles, applied in the order given, a key that
\* more than one of them has resolves to the value of the last that has it
\* when that value is non-empty, and to its default when that value is empty;
\* either way the value the environment held before is overridden, and the
\* environment is left holding the last file's value.
C4_LastFileWins ==
    (SetupLoaded /\ Len(call.files) > 1) =>
        \A K \in DOMAIN vars :
            Cardinality(FilesWith(K, call.files)) > 1 =>
                /\ Getenv(env, K) = LastFileValue(K, call.files)
                /\ vars[K].Value =
                       IF LastFileValue(K, call.files) # ""
                       THEN LastFileValue(K, call.files)
                       ELSE vars[K].DefaultValue

\* two envfiles with different values for one key, the environment holding a
\* third: the second file's value is the resolved one
C4_Witness ==
    /\ SetupLoaded
    /\ call.files = <<BLANK_FILE, DEV_FILE>>
    /\ APP_ENV \in DOMAIN vars
    /\ Getenv(call.env0, APP_ENV) \notin {"", ENV_DEV}
    /\ vars[APP_ENV].Value = ENV_DEV

----------------------------------------------------------------------------
\* the messages Setup and loadEnv wrap a load error in, outermost first
LoadErrorWraps ==
    <<"Failed to set Application Configuration", "Failed to overload variables with envfile(s)">>

\* C5 as stated: when an envfile cannot be read or parsed Setup returns the
\* wrapped load error, which names the operation, the offending file and the
\* cause, and validation is not run; when every envfile loads Setup returns
\* what validation returns.
C5_Original ==
    call.op = "Setup" =>
        IF ~AllFilesLoad(call.files)
        THEN /\ call.err.kind = "wrapped"
             /\ call.err.wraps = LoadErrorWraps
             /\ call.err.cause.Path = call.files[FirstBadFile(call.files)]
             /\ call.err.cause.Err # ""
             /\ call.err.errs = EmptyMap
        ELSE call.err \in {Validate(vars, order) : order \in VisitOrders(vars)}

\* C5 amended: when an envfile cannot be read or parsed Setup returns the
\* wrapped load error, which names the operation and carries the cause of the
\* first envfile that failed; the cause names that file when the file could
\* not be opened and names no file when the file could not be parsed.
\* Validation is not run. When every envfile loads Setup returns what
\* validation returns.
C5_LoadError ==
    call.op = "Setup" =>
        IF ~AllFilesLoad(call.files)
        THEN LET bad == call.files[FirstBadFile(call.files)]
             IN /\ call.err.kind = "wrapped"
                /\ call.err.wraps = LoadErrorWraps
                /\ call.err.cause.Err # ""
                /\ call.err.cause.Op = "open" <=> bad = MISSING_FILE
                /\ call.err.cause.Path = IF bad = MISSING_FILE THEN bad ELSE ""
                /\ call.err.errs = EmptyMap
        ELSE call.err \in {Validate(vars, order) : order \in VisitOrders(vars)}

\* Setup has returned the load error of its second envfile on a store whose
\* values fail validation
C5_Witness ==
    /\ call.op = "Setup"
    /\ Len(call.files) = 2
    /\ ReadFile(call.files[1]).err.kind = "nil"
    /\ ReadFile(call.files[2]).err.kind # "nil"
    /\ call.err.kind = "wrapped"
    /\ \E order \in VisitOrders(vars) : Validate(vars, order).kind = "validation"

----------------------------------------------------------------------------
\* the rules of the registered variable name that reject its value
FailingRules(name) ==
    {r \in DOMAIN vars[name].Rules :
        ~RuleValidate(vars[name].Rules[r], vars[name].Value).isNil}

FailingVars == {name \in DOMAIN vars : FailingRules(name) # {}}

\* C6: Validate returns an error exactly when some rule of some variable
\* rejects its value; the error has one entry per variable with a failing
\* rule, keyed "<name> = <value>", and the entry lists exactly the names of
\* that variable's failing rules.
C6_Original ==
    call.op = "Validate" =>
        /\ call.err.kind = "validation" <=> FailingVars # {}
        /\ call.err.kind \in {"validation", "nil"}
        /\ Cardinality(DOMAIN call.err.errs) = Cardinality(FailingVars)
        /\ \A name \in FailingVars :
            /\ ErrorKey(name, vars[name].Value) \in DOMAIN call.err.errs
            /\ DOMAIN call.err.errs[ErrorKey(name, vars[name].Value)] = FailingRules(name)

----------------------------------------------------------------------------
\* C7: in one state of the store Validate returns the same error whatever
\* order it visits the variables and their rules in.
C7_Original ==
    \A o1, o2 \in VisitOrders(vars) : Validate(vars, o1) = Validate(vars, o2)

----------------------------------------------------------------------------
\* C8: Lookup(name) returns the value and true for a registered name and
\* ("", false) for any other; Get(name) returns the same value, "" for a name
\* that is not registered.
C8_Lookup ==
    /\ call.op = "Lookup" =>
          IF call.name \in DOMAIN vars
          THEN call.val = vars[call.name].Value /\ call.ok
          ELSE call.val = "" /\ ~call.ok
    /\ call.op = "Get" =>
          IF call.name \in DOMAIN vars
          THEN call.val = vars[call.name].Value
          ELSE call.val = ""

\* Lookup has missed a name on a store that has variables
C8_Witness ==
    /\ call.op = "Lookup"
    /\ call.name \notin DOMAIN vars
    /\ DOMAIN vars # {}
    /\ ~call.ok

----------------------------------------------------------------------------
\* C9 as stated: the store NewConfig returns has every variable unresolved:
\* until Setup or loadEnv runs, Get returns "" for every name.
C9_Unresolved == \A name \in LookupNames : Get(vars, name) = ""

C9_Original ==
    /\ call.op = "NewConfig" => C9_Unresolved
    /\ [][(C9_Unresolved /\ call'.op \notin {"Setup", "loadEnv"}) => C9_Unresolved']_allVars

\* the Value the schema handed to NewConfig gives name: "" for a nil schema
\* and for a name the schema does not have
GivenValue(defaults, name) ==
    IF ~defaults.isNil /\ name \in DOMAIN defaults.m THEN defaults.m[name].Value ELSE ""

\* C9 amended: the store NewConfig returns holds the schema's variables with
\* the values the schema gave them: Get returns the Value of the schema's
\* Variable, "" when the schema left it unset and for every name the schema
\* does not have, and goes on returning it until Setup or loadEnv runs. A nil
\* or empty schema yields a store with no variables.
C9_AsGiven ==
    /\ call.op = "NewConfig" =>
          /\ \A name \in LookupNames : Get(vars, name) = GivenValue(call.defaults, name)
          /\ DOMAIN vars = IF call.defaults.isNil THEN {} ELSE DOMAIN call.defaults.m
    /\ [][call'.op \notin {"Setup", "loadEnv"} =>
              \A name \in LookupNames : Get(vars', name) = Get(vars, name)]_allVars

\* a store fresh from NewConfig whose schema gave a variable a Value
C9_Witness ==
    /\ call.op = "NewConfig"
    /\ \E name \in DOMAIN vars :
        /\ GivenValue(call.defaults, name) # ""
        /\ vars[name].DefaultValue # GivenValue(call.defaults, name)
        /\ Get(vars, name) = GivenValue(call.defaults, name)

----------------------------------------------------------------------------
\* C10: IsDebug is true when the value of APP_DEBUG is one of 1, t, T, TRUE,
\* true, True and false for every other value: 0, f, F, FALSE, the empty
\* string, a word such as "off", and when APP_DEBUG is not registered.
C10_IsDebug ==
    call.op = "IsDebug" =>
        LET value == IF APP_DEBUG \in DOMAIN vars THEN vars[APP_DEBUG].Value ELSE ""
        IN /\ value \in {"1", "t", "T", "TRUE", "true", "True"} => call.debug = TRUE
           /\ value \in {"0", "f", "F", "FALSE"} => call.debug = FALSE
           /\ value \notin {"1", "t", "T", "TRUE", "true", "True"} => call.debug = FALSE

\* IsDebug has answered for a resolved token other than "true"
C10_Witness ==
    /\ call.op = "IsDebug"
    /\ APP_DEBUG \in DOMAIN vars
    /\ vars[APP_DEBUG].Value = "T"
    /\ call.debug = TRUE

----------------------------------------------------------------------------
\* the names logrus.ParseLevel knows, in lower case
LevelNames == {"panic", "fatal", "error", "warn", "warning", "info", "debug", "trace"}

\* the level a name of LevelNames names
NamedLevel(name) == IF name = "warn" THEN WarnLevel ELSE name

\* C11: LogrusLogLevel returns the level the value of APP_LOG_LEVEL names
\* when it is a level name (in any case, warn and warning both naming the warn
\* level) and the info level for every other string, the empty one and an
\* unregistered APP_LOG_LEVEL included; LogLevel returns the value unchanged.
C11_LogLevel ==
    LET value == IF APP_LOG_LEVEL \in DOMAIN vars THEN vars[APP_LOG_LEVEL].Value ELSE ""
    IN /\ call.op = "LogrusLogLevel" =>
             IF ToLower(value) \in LevelNames
             THEN call.level = NamedLevel(ToLower(value))
             ELSE call.level = InfoLevel
       /\ call.op = "LogLevel" => call.val = value

\* LogrusLogLevel has answered info for a resolved string that names no level
C11_Witness ==
    /\ call.op = "LogrusLogLevel"
    /\ APP_LOG_LEVEL \in DOMAIN vars
    /\ vars[APP_LOG_LEVEL].Value = "verbose"
    /\ call.level = InfoLevel

----------------------------------------------------------------------------
\* C12: after CreateSampleFile has written the sample file of the store's
\* schema, a Setup of the store with that file as its only envfile loads the
\* file and resolves every registered variable to its default, whatever the
\* environment held before.
C12_Original ==
    (call.op = "Setup" /\ Len(call.files) = 1 /\ call.files[1] \in DOMAIN fs) =>
        /\ call.err.kind # "wrapped"
        /\ \A K \in DOMAIN vars : vars[K].Value = vars[K].DefaultValue

----------------------------------------------------------------------------
\* the place of a registered name among the registered names in ascending order
C13_Rank(K) == Cardinality({n \in DOMAIN vars : Less(n, K)}) + 1

\* the rule names of K in ascending order, joined
C13_Rules(K) ==
    Join(CHOOSE o \in Orders(DOMAIN vars[K].Rules) :
             \A i, j \in 1..Len(o) : i < j => Less(o[i], o[j]), ", ")

\* C13: DumpTable and CreateSampleFile emit one entry per registered
\* variable, none missing and none twice, in ascending order of the names;
\* the entry carries the description, the default value and the rule names
\* joined in ascending order; every visiting order of the maps gives the same
\* output.
C13_Entries ==
    /\ call.op = "DumpTable" =>
          /\ Len(call.rows) = Cardinality(DOMAIN vars)
          /\ \A K \in DOMAIN vars :
                call.rows[C13_Rank(K)] =
                    <<K, vars[K].Description, C13_Rules(K), vars[K].DefaultValue>>
          /\ \A order \in VisitOrders(vars) : DumpTable(vars, order) = call.rows
    /\ call.op = "CreateSampleFile" =>
          LET lines == Lines(fs[call.name], <<>>)
          IN /\ Len(lines) = 2 + 3 * Cardinality(DOMAIN vars)
             /\ IsIgnoredLine(lines[1]) /\ lines[2] = <<>>
             /\ \A K \in DOMAIN vars :
                   /\ Str(lines[3 * C13_Rank(K)]) =
                          "# Description: " \o vars[K].Description
                              \o " # Constraints: " \o C13_Rules(K)
                   /\ Str(lines[3 * C13_Rank(K) + 1]) = K \o "=" \o vars[K].DefaultValue
                   /\ lines[3 * C13_Rank(K) + 2] = <<>>
             /\ \A order \in VisitOrders(vars) : SampleFile(vars, order) = fs[call.name]

\* a sample file with two entries, the second with two rules, written by a
\* store whose maps can be visited in more than one order
C13_Witness ==
    /\ call.op = "CreateSampleFile"
    /\ DOMAIN vars = {APP_DB_SECRET_NAME, APP_ENV}
    /\ Cardinality(VisitOrders(vars)) > 1
    /\ Str(Lines(fs[call.name], <<>>)[6]) =
           "# Description: The environment of the application # Constraints: Required, Valid environment"
    /\ Str(Lines(fs[call.name], <<>>)[4]) = "APP_DB_SECRET_NAME=" \o vars[APP_DB_SECRET_NAME].DefaultValue

----------------------------------------------------------------------------
\* the default fields of Logger i
FieldsOf(i) == Fields(heap, loggers[i].defaultFields)

\* the last call derived a Logger
Derived == call.op \in {"NewComponentLogger", "NewGormLogger"}

\* a write to the field map of a parent leaves the fields of the Loggers
\* derived from it as they were, and a write to the map of a derived Logger
\* leaves its parent's
C14_OwnCopy ==
    call'.op = "SetField" =>
        \A c \in 1..Len(loggers) :
            parentOf[c] # 0 =>
                /\ call'.ref = loggers[parentOf[c]].defaultFields =>
                       Fields(heap', loggers'[c].defaultFields) = FieldsOf(c)
                /\ call'.ref = loggers[c].defaultFields =>
                       Fields(heap', loggers'[parentOf[c]].defaultFields) = FieldsOf(parentOf[c])

\* C14 as stated: the fields of the Logger NewComponentLogger(name) returns
\* are the parent's fields at that moment and exactly one more entry,
\* component = name; the child holds a copy, so a later change to the
\* parent's map, or to the child's, never changes the other's fields.
C14_Original ==
    /\ [](Derived =>
            /\ "component" \notin DOMAIN call.fields
            /\ FieldsOf(call.logger) = Put(call.fields, "component", call.name)
            /\ Cardinality(DOMAIN FieldsOf(call.logger)) = Cardinality(DOMAIN call.fields) + 1)
    /\ [][C14_OwnCopy]_allVars

\* C14 amended: the fields of the Logger NewComponentLogger(name) returns are
\* the parent's fields at that moment with component set to name: one more
\* entry when the parent has no component field, the parent's component
\* replaced when it has one. The child holds a copy in a map of its own, so a
\* later change to the parent's map, or to the child's, never changes the
\* other's fields; the parent's fields are not changed by the derivation.
C14_ComponentSet ==
    /\ [](Derived =>
            /\ DOMAIN FieldsOf(call.logger) = (DOMAIN call.fields) \cup {"component"}
            /\ FieldsOf(call.logger)["component"] = call.name
            /\ \A k \in (DOMAIN call.fields) \ {"component"} :
                  FieldsOf(call.logger)[k] = call.fields[k]
            /\ FieldsOf(call.parent) = call.fields
            /\ loggers[call.logger].defaultFields # loggers[call.parent].defaultFields)
    /\ [][C14_OwnCopy]_allVars

\* a component logger derived from a Logger that has a component field keeps
\* its own component after the parent's map was written to
C14_Witness ==
    /\ call.op = "SetField"
    /\ \E c \in 1..Len(loggers) :
        /\ parentOf[c] # 0
        /\ call.ref = loggers[parentOf[c]].defaultFields
        /\ {"service", "component"} \subseteq DOMAIN FieldsOf(parentOf[c])
        /\ FieldsOf(parentOf[c])["service"] = FieldValue
        /\ FieldsOf(parentOf[c])["component"] = "root"
        /\ FieldsOf(c)["service"] = "test-service"
        /\ FieldsOf(c)["component"] = "GORM"

----------------------------------------------------------------------------
\* strings.Split at the newlines of a detail: the runs of pieces between them
RECURSIVE C15_Split(_, _)
C15_Split(detail, run) ==
    IF detail = <<>> THEN <<run>>
    ELSE IF Head(detail) \in {"\n", "\r\n"} THEN <<run>> \o C15_Split(Tail(detail), <<>>)
    ELSE C15_Split(Tail(detail), Append(run, Head(detail)))

\* a detail on one line: its lines without their tabs, " --- " between them
C15_OneLine(detail) ==
    LET runs == C15_Split(detail, <<>>)
    IN Join([i \in 1..Len(runs) |-> Str(SelectSeq(runs[i], LAMBDA piece : piece # "\t"))], " --- ")

----------------------------------------------------------------------------
\* the last call asked a Logger for an entry
EntryOps == {"Entry", "WithField", "WithFields", "WithError"}

\* the fields the last call supplied
C16_Added ==
    IF call.op = "Entry" THEN EmptyMap
    ELSE IF call.op = "WithError" THEN [k \in {"error"} |-> call.data["error"]]
    ELSE call.added

\* no call for an entry changes a Logger or a field map
C16_Frame == call'.op \in EntryOps => (loggers' = loggers /\ heap' = heap)

\* C16 as stated: the entry Entry, WithField, WithFields and WithError return
\* carries all the default fields of the Logger and the supplied fields, and
\* the Logger's default fields are left as they were.
C16_Original ==
    /\ [](call.op \in EntryOps =>
            /\ DOMAIN call.data = (DOMAIN FieldsOf(call.logger)) \cup (DOMAIN C16_Added)
            /\ \A k \in DOMAIN FieldsOf(call.logger) : call.data[k] = FieldsOf(call.logger)[k]
            /\ \A k \in DOMAIN C16_Added : call.data[k] = C16_Added[k])
    /\ [][C16_Frame]_allVars

\* C16 amended: the entry carries the supplied fields and every default
\* field of the Logger whose key is not among the supplied ones: a supplied
\* field replaces the default field of the same key in the entry. The
\* Logger's default fields are left as they were, so an Entry() after any
\* such calls carries exactly the default fields.
C16_SuppliedWins ==
    /\ [](call.op \in EntryOps =>
            /\ DOMAIN call.data = (DOMAIN FieldsOf(call.logger)) \cup (DOMAIN C16_Added)
            /\ \A k \in (DOMAIN FieldsOf(call.logger)) \ (DOMAIN C16_Added) :
                  call.data[k] = FieldsOf(call.logger)[k]
            /\ \A k \in DOMAIN C16_Added : call.data[k] = C16_Added[k]
            /\ call.op = "Entry" => call.data = FieldsOf(call.logger))
    /\ [][C16_Frame]_allVars

\* WithField has been given the key of a default field: the entry has the
\* supplied value, the Logger still has its own
C16_Witness ==
    /\ call.op = "WithField"
    /\ "service" \in DOMAIN call.added
    /\ "service" \in DOMAIN FieldsOf(call.logger)
    /\ FieldsOf(call.logger)["service"] = "test-service"
    /\ call.data["service"] = FieldValue

----------------------------------------------------------------------------
\* the first bracketed group of the format the last Printf was given, ""
\* when it has none
C17_Tag ==
    LET groups == {i \in 1..Len(call.format) : InBrackets(call.format[i]) # ""}
    IN IF groups = {} THEN ""
       ELSE call.format[CHOOSE i \in groups : \A j \in groups : i <= j]

\* the level Printf routes a tag to
C17_Level(tag) ==
    IF tag = "[error]" THEN ErrorLevel ELSE IF tag = "[warn]" THEN WarnLevel ELSE InfoLevel

\* the format without its first bracketed group, and without the space after
\* it, when that group is a severity tag
C17_Stripped ==
    IF C17_Tag \notin {"[error]", "[warn]", "[info]"} THEN call.format
    ELSE LET i == CHOOSE i \in 1..Len(call.format) :
                      /\ call.format[i] = C17_Tag
                      /\ \A j \in 1..(i - 1) : call.format[j] # C17_Tag
             rest == SubSeq(call.format, i + 1, Len(call.format))
         IN SubSeq(call.format, 1, i - 1)
                \o (IF rest # <<>> /\ Head(rest) = " " THEN Tail(rest) ELSE rest)

\* C17 as stated: Printf emits a message tagged "[error]" at the error
\* level, one tagged "[warn]" at the warn level and every other at the info
\* level, and the emitted message is the message without its severity tag.
C17_Original ==
    call.op = "Printf" =>
        /\ call.entry.Level = C17_Level(C17_Tag)
        /\ call.entry.Message = Str(C17_Stripped)

\* the tag Printf removes at a level, with the space after it
C17_Removed(level) ==
    IF level = ErrorLevel THEN "[error] " ELSE IF level = WarnLevel THEN "[warn] " ELSE "[info] "

\* C17 amended: Printf emits at the level of the first bracketed group of
\* the format: error for "[error]", warn for "[warn]", info for any other
\* group and for a format without one. From the format it removes the first
\* "[error] ", "[warn] " or "[info] " (the tag of that level followed by a
\* space) and nothing else: a tag that no space follows, and any other tag,
\* stays in the emitted message.
C17_TagWithSpace ==
    call.op = "Printf" =>
        /\ call.entry.Level = C17_Level(C17_Tag)
        /\ LET removed == C17_Removed(call.entry.Level)
               at == {i \in 1..(Len(call.format) - 1) :
                         call.format[i] \o call.format[i + 1] = removed}
           IN IF at = {} THEN call.entry.Message = Str(call.format)
              ELSE \E i \in at :
                      /\ \A j \in at : i <= j
                      /\ call.entry.Message =
                             Str(SubSeq(call.format, 1, i - 1))
                                 \o Str(SubSeq(call.format, i + 2, Len(call.format)))

\* Printf has emitted gorm's error format at the error level without its tag
C17_Witness ==
    /\ call.op = "Printf"
    /\ call.format = <<"%s", "\n", "[error]", " ">>
    /\ call.entry.Level = ErrorLevel
    /\ call.entry.Message = "%s\n"

----------------------------------------------------------------------------
\* C18: the gorm level of a Logger built by NewCommonLoggerFromConfiguration
\* is error when APP_LOG_LEVEL names the panic, fatal or error level, warn
\* when it names the warn level, and info, the default, for every other
\* value, one that names no level included; a Logger derived by
\* NewComponentLogger has the gorm level and the slow threshold of its parent,
\* and the adapter NewGormLogger builds has those of the Logger it was asked of.
C18_GormLevel ==
    /\ call.op = "NewCommonLoggerFromConfiguration" =>
          /\ loggers[call.logger].gormConf.LogLevel =
                IF ToLower(call.level) \in {"panic", "fatal", "error"} THEN GormError
                ELSE IF ToLower(call.level) \in {"warn", "warning"} THEN GormWarn
                ELSE GormInfo
          /\ loggers[call.logger].gormConf.SlowThreshold = DefaultSlowThreshold
    /\ \A c \in 1..Len(loggers) :
          parentOf[c] # 0 => loggers[c].gormConf = loggers[parentOf[c]].gormConf
    /\ call.op = "NewGormLogger" => call.adapter = loggers[call.parent].gormConf

\* an adapter at the error level, built from a component logger of a Logger
\* whose store resolved APP_LOG_LEVEL to fatal
C18_Witness ==
    /\ call.op = "NewGormLogger"
    /\ call.adapter.LogLevel = GormError
    /\ Get(vars, APP_LOG_LEVEL) = "fatal"
    /\ loggers[call.parent].log.Level = FatalLevel
    /\ parentOf[call.parent] # 0

----------------------------------------------------------------------------
\* C19: only Setup and loadEnv change the store: every other call (Lookup,
\* Get, Validate with its ValidationErrors, IsDebug, IsDev, IsTest, IsStaging,
\* IsAcceptance, IsProduction, LogLevel, LogrusLogLevel, Env, Port, Address,
\* DBSecretName, Hostname, DumpTable, CreateSampleFile) leaves the registered
\* names and each variable's value, default, description and rules as they
\* were.
C19_Frame == [][call'.op \notin {"Setup", "loadEnv"} => vars' = vars]_allVars

\* CreateSampleFile has run on a store that was resolved, and the values are
\* still the resolved ones
C19_Witness ==
    /\ call.op = "CreateSampleFile"
    /\ APP_ENV \in DOMAIN vars
    /\ vars[APP_ENV].Value = ENV_STAGING
    /\ vars[APP_ENV].DefaultValue = ENV_TEST

----------------------------------------------------------------------------
\* C20: a Setup that fails because an envfile does not load changes no
\* variable of the store: every value is what it was before the call, also
\* when envfiles before the failing one were loaded.
C20_FailedSetup ==
    [][(call'.op = "Setup" /\ call'.err.kind = "wrapped") => vars' = vars]_allVars

\* a Setup has failed on its second envfile after the first was loaded into
\* the environment, on a store resolved earlier: the value is the earlier one
C20_Witness ==
    /\ call.op = "Setup"
    /\ call.err.kind = "wrapped"
    /\ call.files = <<DEV_FILE, MISSING_FILE>>
    /\ APP_ENV \in DOMAIN vars
    /\ vars[APP_ENV].Value = ENV_STAGING
    /\ Getenv(call.env0, APP_ENV) = ENV_STAGING
    /\ Getenv(env, APP_ENV) = ENV_DEV

----------------------------------------------------------------------------
\* the last call built a Logger
C21_Built == call.op \in {"NewLogger", "NewComponentLogger", "NewGormLogger"}

\* no step changes the formatErrors of a Logger that exists
C21_Fixed ==
    \A i \in 1..Len(loggers) : loggers'[i].formatErrors = loggers[i].formatErrors

\* Loggers a and b put the same text in the error field for every error
C21_SameText(a, b) ==
    \A err \in Errors : parseError(loggers[a], err) = parseError(loggers[b], err)

\* C21 as stated: the formatErrors of a Logger is fixed when it is built and
\* never read again, and a Logger derived by NewComponentLogger has the
\* formatErrors of its parent, also when LOG_FORMAT_ERRORS was changed between
\* the building of the parent and the derivation: parent and child put the
\* same text in the error field for the same wrapped error.
C21_Original ==
    /\ [][C21_Fixed]_allVars
    /\ [](\A c \in 1..Len(loggers) :
            parentOf[c] # 0 =>
                /\ loggers[c].formatErrors = loggers[parentOf[c]].formatErrors
                /\ C21_SameText(c, parentOf[c]))

\* C21 amended: the formatErrors of a Logger is what LOG_FORMAT_ERRORS parses
\* to when the Logger is built, and no later step changes it. A Logger
\* derived by NewComponentLogger or NewGormLogger is built at the derivation:
\* its formatErrors is read from LOG_FORMAT_ERRORS then, not taken from its
\* parent. Parent and child put the same text in the error field when their
\* flags are equal, and a different text for a wrapped error when
\* LOG_FORMAT_ERRORS parsed to another value at the derivation than when the
\* parent was built.
C21_ReadWhenBuilt ==
    /\ [][C21_Fixed]_allVars
    /\ [](C21_Built =>
            loggers[call.logger].formatErrors =
                (Getenv(env, LOG_FORMAT_ERRORS) \in {"1", "t", "T", "TRUE", "true", "True"}))
    /\ [](\A c \in 1..Len(loggers) :
            parentOf[c] # 0 =>
                (loggers[c].formatErrors = loggers[parentOf[c]].formatErrors
                    <=> C21_SameText(c, parentOf[c])))

\* a component logger derived after LOG_FORMAT_ERRORS was unset, of a parent
\* built while it was "true", has put a wrapped error's trace in the error
\* field as it is, where its parent puts it on one line
C21_Witness ==
    /\ call.op = "WithError"
    /\ call.err.kind = "wrapped"
    /\ parentOf[call.logger] # 0
    /\ loggers[parentOf[call.logger]].formatErrors
    /\ ~loggers[call.logger].formatErrors
    /\ call.data["error"] # parseError(loggers[parentOf[call.logger]], call.err)
    /\ call.data["error"] = Str(call.err.inner.detail)

====
